---- MODULE Spec2Model ----
(***************************************************************************)
(* A model of src/app.py (wx-listener): the WeChatMonitor object, its two  *)
(* JSON files, the chat client and the remote model API.                   *)
(*                                                                         *)
(* Representation.  A Python str is a sequence of one-character strings.   *)
(* Non-ASCII characters of the source are written with ASCII names:        *)
(* "shi" is the affirmative token, "fou" the negative one, "tong" "zhi"    *)
(* are the two characters of the first default keyword, and so on; the     *)
(* default title is "wei" "zhi" "tong" "zhi".  A dict value is tagged:     *)
(* S(s) is a str, B(b) a bool.  A dict is a function from its keys.        *)
(* A model reply is a sequence of characters in which a whole JSON member  *)
(* ("key": value) is one token, decoded by Member.                         *)
(***************************************************************************)
EXTENDS Integers, Sequences, FiniteSets, TLC

VARIABLES
    config,            \* self.config: [target_groups, keywords, enable_alert]
    config_file,       \* data/config.json: its state and its text
    active_listeners,  \* key set of self.active_listeners
    wx_listen,         \* chat client: group -> number of registered callbacks
    keep_running,      \* TRUE once a monitoring thread sits in wx.KeepRunning()
    notif_file,        \* data/notifications.json: [st, data]
    now,               \* the clock, in seconds
    last,              \* the last completed handler and what it returned
    call,              \* the last application of a classifier/extractor function
    threads,           \* request and callback threads that are inside a handler
    serial             \* the records that the completed store operations
                       \* leave when applied one after the other, in the
                       \* order of their completion

vars == <<config, config_file, active_listeners, wx_listen, keep_running,
          notif_file, now, last, call, threads, serial>>

(***************************************************************************)
(* Bounds of the model.                                                    *)
(***************************************************************************)
MaxNotifications == 2
MaxTime == 1
Slack == 1

Groups == {"g1", "g2"}

(***************************************************************************)
(* Program constants.                                                      *)
(***************************************************************************)
LengthGate == 20
ContentLimit == 200

(***************************************************************************)
(* Python values.                                                          *)
(***************************************************************************)
S(s) == [ty |-> "str", v |-> s]
B(b) == [ty |-> "bool", v |-> b]

Min(a, b) == IF a <= b THEN a ELSE b

\* s[:n]
Prefix(s, n) == SubSeq(s, 1, Min(n, Len(s)))

\* sub in s, for two strs
StrContains(s, sub) ==
    \E i \in 1..(Len(s) - Len(sub) + 1) : SubSeq(s, i, i + Len(sub) - 1) = sub

\* s.find(c): 0-based index of the first c, -1 when absent
RECURSIVE FindFrom(_, _, _)
FindFrom(s, c, i) ==
    IF i > Len(s) THEN -1
    ELSE IF s[i] = c THEN i - 1
    ELSE FindFrom(s, c, i + 1)
find(s, c) == FindFrom(s, c, 1)

\* s.rfind(c): 0-based index of the last c, -1 when absent
RECURSIVE RFindFrom(_, _, _)
RFindFrom(s, c, i) ==
    IF i < 1 THEN -1
    ELSE IF s[i] = c THEN i - 1
    ELSE RFindFrom(s, c, i - 1)
rfind(s, c) == RFindFrom(s, c, Len(s))

\* str.lower(), one character
LowerChar(c) ==
    CASE c = "T" -> "t" [] c = "R" -> "r" [] c = "U" -> "u" [] c = "E" -> "e"
      [] c = "Y" -> "y" [] c = "S" -> "s" [] c = "N" -> "n" [] c = "O" -> "o"
      [] OTHER -> c
lower(s) == [i \in 1..Len(s) |-> LowerChar(s[i])]

Digit(d) ==
    CASE d = 0 -> "0" [] d = 1 -> "1" [] d = 2 -> "2" [] d = 3 -> "3"
      [] d = 4 -> "4" [] d = 5 -> "5" [] d = 6 -> "6" [] d = 7 -> "7"
      [] d = 8 -> "8" [] d = 9 -> "9"

\* str(n) for n >= 0
RECURSIVE IntToStr(_)
IntToStr(n) ==
    IF n < 10 THEN <<Digit(n)>> ELSE IntToStr(n \div 10) \o <<Digit(n % 10)>>

(***************************************************************************)
(* JSON text of a model reply.                                             *)
(***************************************************************************)
MemberTokens ==
    {"m_title", "m_time", "m_location", "m_content", "m_action",
     "m_urgent_false", "m_urgent_true", "m_urgent_YES", "m_urgent_shi",
     "m_urgent_no",
     "m_id", "m_timestamp", "m_is_read", "m_group", "m_sender", "m_raw_content"}

\* the key and the value a member token decodes to
Member(tok) ==
    CASE tok = "m_title"        -> [k |-> "title",     v |-> S(<<"A">>)]
      [] tok = "m_time"         -> [k |-> "time",      v |-> S(<<"9">>)]
      [] tok = "m_location"     -> [k |-> "location",  v |-> S(<<"L">>)]
      [] tok = "m_content"      -> [k |-> "content",   v |-> S(<<"C">>)]
      [] tok = "m_action"       -> [k |-> "action",    v |-> S(<<>>)]
      [] tok = "m_urgent_false" -> [k |-> "is_urgent", v |-> B(FALSE)]
      [] tok = "m_urgent_true"  -> [k |-> "is_urgent", v |-> B(TRUE)]
      [] tok = "m_urgent_YES"   -> [k |-> "is_urgent", v |-> S(<<"Y", "E", "S">>)]
      [] tok = "m_urgent_shi"   -> [k |-> "is_urgent", v |-> S(<<"shi">>)]
      [] tok = "m_urgent_no"    -> [k |-> "is_urgent", v |-> S(<<"n", "o">>)]
      [] tok = "m_id"           -> [k |-> "id",          v |-> S(<<"I">>)]
      [] tok = "m_timestamp"    -> [k |-> "timestamp",   v |-> S(<<"T">>)]
      [] tok = "m_is_read"      -> [k |-> "is_read",     v |-> B(TRUE)]
      [] tok = "m_group"        -> [k |-> "group",       v |-> S(<<"G">>)]
      [] tok = "m_sender"       -> [k |-> "sender",      v |-> S(<<"S">>)]
      [] tok = "m_raw_content"  -> [k |-> "raw_content", v |-> S(<<"R">>)]

\* the dict of a sequence of members; a repeated key keeps its last value
RECURSIVE MembersToDict(_)
MembersToDict(ms) ==
    IF ms = <<>> THEN <<>>
    ELSE LET m == Member(ms[Len(ms)])
         IN  (m.k :> m.v) @@ MembersToDict(SubSeq(ms, 1, Len(ms) - 1))

\* json.loads(s): the decoded object, or JSONDecodeError
json_loads(s) ==
    IF /\ Len(s) >= 2
       /\ s[1] = "{"
       /\ s[Len(s)] = "}"
       /\ \A i \in 2..(Len(s) - 1) : s[i] \in MemberTokens
    THEN [raised |-> FALSE, value |-> MembersToDict(SubSeq(s, 2, Len(s) - 1))]
    ELSE [raised |-> TRUE, value |-> <<>>]

\* line 156 printing the reply without decoding it through json.load
json_load_skipped(fp) == [raised |-> FALSE, value |-> <<>>]

\* json.load(fp) as called on a str: it evaluates fp.read(), a str has no
\* read attribute, so the call raises AttributeError before decoding anything
json_load(fp) == [raised |-> TRUE, value |-> <<>>]

(***************************************************************************)
(* The remote model API.  An HTTP exchange is a transport error, an error  *)
(* status, or a 200 answer with a JSON body; a body is a dict that may     *)
(* hold a list "choices" of completions (each the message content).        *)
(***************************************************************************)
None == [none |-> TRUE, has_choices |-> FALSE, choices |-> <<>>]
Body(has, cs) == [none |-> FALSE, has_choices |-> has, choices |-> cs]

HttpError(kind) == [kind |-> kind, body |-> None]
HttpOk(body) == [kind |-> "ok", body |-> body]

\* call_model_api: the parsed body, or None on any transport/HTTP error
call_model_api(http) ==
    IF http.kind = "ok" THEN http.body ELSE None

\* result and "choices" in result
Usable(result) == ~result.none /\ result.has_choices

\* test_model_connection: result["choices"][0] raises IndexError on an empty list
test_model_connection(http) ==
    LET result == call_model_api(http)
    IN  IF Usable(result)
        THEN IF result.choices = <<>>
             THEN [raised |-> TRUE, success |-> FALSE, response |-> <<>>]
             ELSE [raised |-> FALSE, success |-> TRUE, response |-> result.choices[1]]
        ELSE [raised |-> FALSE, success |-> FALSE, response |-> <<>>]

\* analyze_with_model indexing the result without testing it: None["choices"]
\* raises TypeError
analyze_with_model_unchecked(http) ==
    LET result == call_model_api(http)
    IN  IF ~Usable(result) \/ result.choices = <<>>
        THEN [raised |-> TRUE, response |-> <<>>]
        ELSE [raised |-> FALSE, response |-> result.choices[1]]

\* analyze_with_model: the completion text, "" without a usable result
analyze_with_model(http) ==
    LET result == call_model_api(http)
    IN  IF Usable(result)
        THEN IF result.choices = <<>>
             THEN [raised |-> TRUE, response |-> <<>>]
             ELSE [raised |-> FALSE, response |-> result.choices[1]]
        ELSE [raised |-> FALSE, response |-> <<>>]

\* str.strip(): drop the blanks at both ends
RECURSIVE strip(_)
strip(s) ==
    IF s = <<>> THEN s
    ELSE IF s[1] = " " THEN strip(Tail(s))
    ELSE IF s[Len(s)] = " " THEN strip(SubSeq(s, 1, Len(s) - 1))
    ELSE s

\* any(keyword in content for keyword in keywords)
has_keyword(content, keywords) ==
    \E i \in 1..Len(keywords) : StrContains(content, keywords[i])

\* the gate with the length test off by one
gate_from_twenty(content, keywords) ==
    has_keyword(content, keywords) \/ Len(content) >= LengthGate

\* the local gate of is_notification
gate(content, keywords) ==
    has_keyword(content, keywords) \/ Len(content) > LengthGate

\* is_notification taking any reply for a yes
is_notification_any_reply(content, keywords, http) ==
    IF gate(content, keywords)
    THEN LET a == analyze_with_model(http)
         IN  IF a.raised
             THEN [raised |-> TRUE, value |-> FALSE, calls |-> 1]
             ELSE [raised |-> FALSE, value |-> TRUE, calls |-> 1]
    ELSE [raised |-> FALSE, value |-> FALSE, calls |-> 0]

\* is_notification: value, the number of remote calls made, and whether it raised
is_notification(content, keywords, http) ==
    IF gate(content, keywords)
    THEN LET a == analyze_with_model(http)
         IN  IF a.raised
             THEN [raised |-> TRUE, value |-> FALSE, calls |-> 1]
             ELSE [raised |-> FALSE,
                   value |-> StrContains(strip(a.response), <<"shi">>),
                   calls |-> 1]
    ELSE [raised |-> FALSE, value |-> FALSE, calls |-> 0]

InfoKeys == {"title", "time", "location", "content", "action", "is_urgent"}

\* the default record without the truncation of content
default_info_untruncated(content) ==
    [title     |-> S(<<"wei", "zhi", "tong", "zhi">>),
     time      |-> S(<<>>),
     location  |-> S(<<>>),
     content   |-> S(content),
     action    |-> S(<<>>),
     is_urgent |-> B(FALSE)]

default_info(content) ==
    [title     |-> S(<<"wei", "zhi", "tong", "zhi">>),
     time      |-> S(<<>>),
     location  |-> S(<<>>),
     content   |-> S(Prefix(content, ContentLimit)),
     action    |-> S(<<>>),
     is_urgent |-> B(FALSE)]

\* lines 159-169: decode the whole reply, else the text from the first "{"
\* to the last "}"
parse_reply(response) ==
    LET direct == json_loads(response)
        start  == find(response, "{")
        end    == rfind(response, "}") + 1
    IN  IF ~direct.raised THEN direct
        ELSE IF start >= 0 /\ end > start
             THEN json_loads(SubSeq(response, start + 1, end))
             ELSE [raised |-> TRUE, value |-> <<>>]

TruthyWords == {<<"t", "r", "u", "e">>, <<"shi">>, <<"y", "e", "s">>}

\* lines 172-178: backfill absent fields, coerce a str is_urgent to a bool
fill_fields(info, defaults) ==
    LET filled == info @@ defaults
    IN  IF filled["is_urgent"].ty = "str"
        THEN [filled EXCEPT !["is_urgent"] = B(lower(@.v) \in TruthyWords)]
        ELSE filled

\* extract_notification_info.  When analyze_with_model raises, the handler's
\* print reads the unbound name response and the function raises; otherwise
\* line 156 raises inside the try and the handler returns default_info.
extract_notification_info(content, http) ==
    LET defaults == default_info(content)
        a        == analyze_with_model(http)
    IN  IF a.raised
        THEN [raised |-> TRUE, info |-> defaults, response |-> <<>>]
        ELSE IF json_load(a.response).raised
        THEN [raised |-> FALSE, info |-> defaults, response |-> a.response]
        ELSE LET p == parse_reply(a.response)
             IN  IF p.raised
                 THEN [raised |-> FALSE, info |-> defaults, response |-> a.response]
                 ELSE [raised |-> FALSE,
                       info |-> fill_fields(p.value, defaults),
                       response |-> a.response]

(***************************************************************************)
(* The notification store, data/notifications.json.  st is "missing",      *)
(* "malformed" (not JSON), "nonlist" (the JSON object {}) or "ok" (a JSON  *)
(* array, data).  json.dump followed by json.load returns the str and bool *)
(* values of a record unchanged, so the file is kept as its parsed content.*)
(***************************************************************************)
File(st, data) == [st |-> st, data |-> data]

\* "ntf-<unix seconds>"
NotificationId(t) == S(<<"n", "t", "f", "-">> \o IntToStr(t))

\* datetime.now().strftime(...), to the second
Timestamp(t) == S(IntToStr(t))

\* GET /api/notifications: the array, [] when the file is missing or malformed
get_notifications(file) ==
    IF file.st \in {"ok", "nonlist"} THEN file.data ELSE <<>>

\* save_notification: {} has no append, so a "nonlist" file raises AttributeError
save_notification(file, notification_data, t) ==
    LET notification ==
            notification_data @@
            [id |-> NotificationId(t), timestamp |-> Timestamp(t), is_read |-> B(FALSE)]
        notifications == IF file.st = "ok" THEN file.data ELSE <<>>
    IN  IF file.st = "nonlist"
        THEN [raised |-> TRUE, file |-> file]
        ELSE [raised |-> FALSE, file |-> File("ok", Append(notifications, notification))]

\* mark_read flipping the flag of the matching records instead of setting it
mark_read_toggles(file, notification_id) ==
    IF file.st \in {"missing", "malformed"}
    THEN [ret |-> FALSE, file |-> file]
    ELSE LET notifications == file.data
             updated == \E i \in 1..Len(notifications) :
                            notifications[i].id = notification_id
             marked  == [i \in 1..Len(notifications) |->
                            IF notifications[i].id = notification_id
                            THEN [notifications[i] EXCEPT
                                    !.is_read = B(~notifications[i].is_read.v)]
                            ELSE notifications[i]]
         IN  IF updated
             THEN [ret |-> TRUE, file |-> File(file.st, marked)]
             ELSE [ret |-> FALSE, file |-> file]

\* mark_read reading the file as save_notification does and always rewriting it
mark_read_always_writes(file, notification_id) ==
    LET notifications == IF file.st = "ok" THEN file.data ELSE <<>>
        updated == \E i \in 1..Len(notifications) :
                       notifications[i].id = notification_id
        marked  == [i \in 1..Len(notifications) |->
                       IF notifications[i].id = notification_id
                       THEN [notifications[i] EXCEPT !.is_read = B(TRUE)]
                       ELSE notifications[i]]
    IN  [ret |-> updated, file |-> File("ok", marked)]

\* mark_notification_as_read: every exception is caught and gives False
mark_notification_as_read(file, notification_id) ==
    IF file.st \in {"missing", "malformed"}
    THEN [ret |-> FALSE, file |-> file]
    ELSE LET notifications == file.data
             updated == \E i \in 1..Len(notifications) :
                            notifications[i].id = notification_id
             marked  == [i \in 1..Len(notifications) |->
                            IF notifications[i].id = notification_id
                            THEN [notifications[i] EXCEPT !.is_read = B(TRUE)]
                            ELSE notifications[i]]
         IN  IF updated
             THEN [ret |-> TRUE, file |-> File(file.st, marked)]
             ELSE [ret |-> FALSE, file |-> file]

\* a filter that drops only the first record of the id
RECURSIVE WithoutFirst(_, _)
WithoutFirst(notifications, notification_id) ==
    IF notifications = <<>> THEN <<>>
    ELSE IF Head(notifications).id # notification_id
         THEN <<Head(notifications)>> \o WithoutFirst(Tail(notifications), notification_id)
         ELSE Tail(notifications)

\* [n for n in notifications if n['id'] != notification_id]
RECURSIVE Without(_, _)
Without(notifications, notification_id) ==
    IF notifications = <<>> THEN <<>>
    ELSE IF Head(notifications).id # notification_id
         THEN <<Head(notifications)>> \o Without(Tail(notifications), notification_id)
         ELSE Without(Tail(notifications), notification_id)

\* delete_notification: every exception is caught and gives False
delete_notification(file, notification_id) ==
    IF file.st \in {"missing", "malformed"}
    THEN [ret |-> FALSE, file |-> file]
    ELSE LET notifications == file.data
             new_notifications == Without(notifications, notification_id)
         IN  IF Len(new_notifications) < Len(notifications)
             THEN [ret |-> TRUE, file |-> File(file.st, new_notifications)]
             ELSE [ret |-> FALSE, file |-> file]

(***************************************************************************)
(* on_message.  The body is lines 207-222; the handler of line 223 turns   *)
(* every exception of the body into a log line.                            *)
(***************************************************************************)
on_message_body(file, keywords, chat_name, sender, content, http1, http2, t) ==
    LET n == is_notification(content, keywords, http1)
    IN  IF n.raised
        THEN [raised |-> TRUE, file |-> file, calls |-> n.calls]
        ELSE IF ~n.value
        THEN [raised |-> FALSE, file |-> file, calls |-> n.calls]
        ELSE LET e == extract_notification_info(content, http2)
             IN  IF e.raised
                 THEN [raised |-> TRUE, file |-> file, calls |-> n.calls + 1]
                 ELSE LET w == save_notification(
                                   file,
                                   e.info @@ [group       |-> S(chat_name),
                                              sender      |-> S(sender),
                                              raw_content |-> S(content)],
                                   t)
                      IN  [raised |-> w.raised, file |-> w.file, calls |-> n.calls + 1]

\* on_message without the handler of line 223
on_message_uncaught(file, keywords, chat_name, sender, content, http1, http2, t) ==
    LET r == on_message_body(file, keywords, chat_name, sender, content, http1, http2, t)
    IN  [raised |-> r.raised, caught |-> FALSE, file |-> r.file, calls |-> r.calls]

on_message(file, keywords, chat_name, sender, content, http1, http2, t) ==
    LET r == on_message_body(file, keywords, chat_name, sender, content, http1, http2, t)
    IN  [raised |-> FALSE, caught |-> r.raised, file |-> r.file, calls |-> r.calls]

(***************************************************************************)
(* The config file.  Its text is the sequence of JSON tokens that          *)
(* json.dump writes (white space left out); the characters of a string     *)
(* literal are tokens of their own, a group name counting as one           *)
(* character.  The dict is written with its keys in the order of           *)
(* default_config.                                                         *)
(***************************************************************************)
Quote == "\""
Backslash == "\\"

\* string literals written without escaping
escape_nothing(chars) == chars

\* the body of a JSON string literal: quote and backslash are escaped
RECURSIVE escape(_)
escape(chars) ==
    IF chars = <<>> THEN <<>>
    ELSE IF Head(chars) \in {Quote, Backslash}
         THEN <<Backslash, Head(chars)>> \o escape(Tail(chars))
         ELSE <<Head(chars)>> \o escape(Tail(chars))

dump_str(chars) == <<Quote>> \o escape(chars) \o <<Quote>>

\* a list of strings
RECURSIVE dump_items(_)
dump_items(strs) ==
    IF strs = <<>> THEN <<>>
    ELSE IF Len(strs) = 1 THEN dump_str(strs[1])
    ELSE dump_str(strs[1]) \o <<",">> \o dump_items(Tail(strs))

dump_list(strs) == <<"[">> \o dump_items(strs) \o <<"]">>

dump_bool(b) == IF b THEN <<"true">> ELSE <<"false">>

\* a group name as a str of its characters, and back
GroupStr(g) == <<g>>
GroupName(chars) == IF Len(chars) = 1 THEN chars[1] ELSE "?"

\* json.dump(config, f, ensure_ascii=False, indent=2)
json_dump(config_) ==
    <<"{">>
    \o dump_str(<<"target_groups">>) \o <<":">>
    \o dump_list([i \in 1..Len(config_.target_groups) |->
                     GroupStr(config_.target_groups[i])])
    \o <<",">> \o dump_str(<<"keywords">>) \o <<":">>
    \o dump_list(config_.keywords)
    \o <<",">> \o dump_str(<<"enable_alert">>) \o <<":">>
    \o dump_bool(config_.enable_alert)
    \o <<"}">>

\* parsing: each parser gives [ok, value, rest]
Parsed(value, rest) == [ok |-> TRUE, value |-> value, rest |-> rest]
Failed == [ok |-> FALSE, value |-> <<>>, rest |-> <<>>]

\* the characters of a string literal after its opening quote
RECURSIVE parse_chars(_, _)
parse_chars(toks, acc) ==
    IF toks = <<>> THEN Failed
    ELSE IF Head(toks) = Quote THEN Parsed(acc, Tail(toks))
    ELSE IF Head(toks) = Backslash
         THEN IF Len(toks) >= 2 /\ toks[2] \in {Quote, Backslash}
              THEN parse_chars(Tail(Tail(toks)), Append(acc, toks[2]))
              ELSE Failed
    ELSE parse_chars(Tail(toks), Append(acc, Head(toks)))

parse_str(toks) ==
    IF toks # <<>> /\ Head(toks) = Quote
    THEN parse_chars(Tail(toks), <<>>)
    ELSE Failed

\* the items of a list after "[" or ","
RECURSIVE parse_items(_, _)
parse_items(toks, acc) ==
    LET s == parse_str(toks)
    IN  IF ~s.ok \/ s.rest = <<>> THEN Failed
        ELSE IF Head(s.rest) = "]"
             THEN Parsed(Append(acc, s.value), Tail(s.rest))
        ELSE IF Head(s.rest) = ","
             THEN parse_items(Tail(s.rest), Append(acc, s.value))
        ELSE Failed

parse_list(toks) ==
    IF Len(toks) >= 2 /\ toks[1] = "["
    THEN IF toks[2] = "]" THEN Parsed(<<>>, Tail(Tail(toks)))
         ELSE parse_items(Tail(toks), <<>>)
    ELSE Failed

\* a value of the config: a list of strings, true or false
parse_value(toks) ==
    IF toks = <<>> THEN Failed
    ELSE IF Head(toks) = "true" THEN Parsed(TRUE, Tail(toks))
    ELSE IF Head(toks) = "false" THEN Parsed(FALSE, Tail(toks))
    ELSE parse_list(toks)

\* the members of an object after "{" or ","; a repeated key keeps the
\* last value
RECURSIVE parse_members(_, _)
parse_members(toks, acc) ==
    LET k == parse_str(toks)
    IN  IF ~k.ok \/ Len(k.value) # 1 \/ k.rest = <<>> \/ Head(k.rest) # ":"
        THEN Failed
        ELSE LET v == parse_value(Tail(k.rest))
                 d == (k.value[1] :> v.value) @@ acc
             IN  IF ~v.ok \/ v.rest = <<>> THEN Failed
                 ELSE IF Head(v.rest) = "}" THEN Parsed(d, Tail(v.rest))
                 ELSE IF Head(v.rest) = "," THEN parse_members(Tail(v.rest), d)
                 ELSE Failed

\* json.load(f): ok is FALSE for JSONDecodeError
json_load_config(text) ==
    IF Len(text) >= 2 /\ text[1] = "{"
    THEN LET r == IF text[2] = "}" THEN Parsed(<<>>, Tail(Tail(text)))
                  ELSE parse_members(Tail(text), <<>>)
         IN  IF r.ok /\ r.rest = <<>> THEN r ELSE Failed
    ELSE Failed

\* the loaded dict as the model's config: group names are single characters
AsConfig(d) ==
    [k \in DOMAIN d |->
        IF k = "target_groups"
        THEN [i \in 1..Len(d[k]) |-> GroupName(d[k][i])]
        ELSE d[k]]

ConfigFile(st, text) == [st |-> st, text |-> text]

DefaultKeywords ==
    <<(<<"tong", "zhi">>), (<<"zhong", "yao">>), (<<"jin", "ji">>),
      (<<"ti", "xing">>), (<<"bi", "kan">>)>>

default_config ==
    [target_groups |-> <<>>, keywords |-> DefaultKeywords, enable_alert |-> TRUE]

\* save_config: the file is rewritten in full
save_config(config_) == ConfigFile("ok", json_dump(config_))

\* load_config: the file's content, or the default config written and returned
load_config(file) ==
    LET r == IF file.st = "ok" THEN json_load_config(file.text) ELSE Failed
    IN  IF r.ok
        THEN [config |-> AsConfig(r.value), file |-> file]
        ELSE [config |-> default_config, file |-> save_config(default_config)]

(***************************************************************************)
(* The listener manager.  m is the monitor's state: config, the config     *)
(* file, active_listeners and the chat client's registrations.  wx_ok says *)
(* whether the chat client's call returns (TRUE) or raises (FALSE).        *)
(***************************************************************************)
Monitor(c, f, a, w) == [config |-> c, config_file |-> f, active_listeners |-> a, wx_listen |-> w]

InSeq(x, s) == \E i \in 1..Len(s) : s[i] = x

\* list.remove(x): drops the first occurrence
RECURSIVE RemoveFirst(_, _)
RemoveFirst(s, x) ==
    IF s = <<>> THEN <<>>
    ELSE IF Head(s) = x THEN Tail(s)
    ELSE <<Head(s)>> \o RemoveFirst(Tail(s), x)

\* add_group_listener without the test of line 228
add_group_listener_unguarded(m, group_name, wx_ok) ==
    IF ~wx_ok
    THEN [ret |-> "raised", m |-> m]
    ELSE LET w == [m.wx_listen EXCEPT ![group_name] = @ + 1]
             a == m.active_listeners \cup {group_name}
         IN  IF ~InSeq(group_name, m.config.target_groups)
             THEN LET c == [m.config EXCEPT !.target_groups = Append(@, group_name)]
                  IN  [ret |-> "true", m |-> Monitor(c, save_config(c), a, w)]
             ELSE [ret |-> "true", m |-> Monitor(m.config, m.config_file, a, w)]

\* add_group_listener without lines 232-234
add_group_listener_memory_only(m, group_name, wx_ok) ==
    IF group_name \notin m.active_listeners
    THEN IF ~wx_ok
         THEN [ret |-> "raised", m |-> m]
         ELSE [ret |-> "true",
               m |-> Monitor(m.config, m.config_file,
                             m.active_listeners \cup {group_name},
                             [m.wx_listen EXCEPT ![group_name] = @ + 1])]
    ELSE [ret |-> "false", m |-> m]

add_group_listener(m, group_name, wx_ok) ==
    IF group_name \notin m.active_listeners
    THEN IF ~wx_ok
         THEN [ret |-> "raised", m |-> m]
         ELSE LET w == [m.wx_listen EXCEPT ![group_name] = @ + 1]
                  a == m.active_listeners \cup {group_name}
              IN  IF ~InSeq(group_name, m.config.target_groups)
                  THEN LET c == [m.config EXCEPT !.target_groups = Append(@, group_name)]
                       IN  [ret |-> "true", m |-> Monitor(c, save_config(c), a, w)]
                  ELSE [ret |-> "true", m |-> Monitor(m.config, m.config_file, a, w)]
    ELSE [ret |-> "false", m |-> m]

\* remove_group_listener without lines 244-246
remove_group_listener_keeps_target(m, group_name, wx_ok) ==
    IF group_name \in m.active_listeners
    THEN IF ~wx_ok
         THEN [ret |-> "raised", m |-> m]
         ELSE [ret |-> "true",
               m |-> Monitor(m.config, m.config_file,
                             m.active_listeners \ {group_name},
                             [m.wx_listen EXCEPT ![group_name] = 0])]
    ELSE [ret |-> "false", m |-> m]

\* remove_group_listener updating the config before it calls the chat client
remove_group_listener_config_first(m, group_name, wx_ok) ==
    IF group_name \in m.active_listeners
    THEN LET c == [m.config EXCEPT !.target_groups = RemoveFirst(@, group_name)]
         IN  IF ~wx_ok
             THEN [ret |-> "raised",
                   m |-> Monitor(c, save_config(c), m.active_listeners, m.wx_listen)]
             ELSE [ret |-> "true",
                   m |-> Monitor(c, save_config(c), m.active_listeners \ {group_name},
                                 [m.wx_listen EXCEPT ![group_name] = 0])]
    ELSE [ret |-> "false", m |-> m]

remove_group_listener(m, group_name, wx_ok) ==
    IF group_name \in m.active_listeners
    THEN IF ~wx_ok
         THEN [ret |-> "raised", m |-> m]
         ELSE LET w == [m.wx_listen EXCEPT ![group_name] = 0]
                  a == m.active_listeners \ {group_name}
              IN  IF InSeq(group_name, m.config.target_groups)
                  THEN LET c == [m.config EXCEPT !.target_groups = RemoveFirst(@, group_name)]
                       IN  [ret |-> "true", m |-> Monitor(c, save_config(c), a, w)]
                  ELSE [ret |-> "true", m |-> Monitor(m.config, m.config_file, a, w)]
    ELSE [ret |-> "false", m |-> m]

\* lines 257-258: the loop over config['target_groups'], from index i; bad is
\* the set of groups for which AddListenChat raises
RECURSIVE RegisterAll(_, _, _)
RegisterAll(m, i, bad) ==
    IF i > Len(m.config.target_groups)
    THEN [ret |-> "done", m |-> m]
    ELSE LET group == m.config.target_groups[i]
             r     == add_group_listener(m, group, group \notin bad)
         IN  IF r.ret = "raised" THEN r ELSE RegisterAll(r.m, i + 1, bad)

\* start_monitoring, up to the call of wx.KeepRunning()
start_monitoring(m, http, bad) ==
    LET test_result == test_model_connection(http)
    IN  IF test_result.raised
        THEN [ret |-> "raised_selftest", m |-> m]
        ELSE LET r == RegisterAll(m, 1, bad)
             IN  IF r.ret = "raised"
                 THEN [ret |-> "raised_register", m |-> r.m]
                 ELSE [ret |-> "keep_running", m |-> r.m]

(***************************************************************************)
(* Inputs.                                                                 *)
(***************************************************************************)
Rep(c, n) == [i \in 1..n |-> c]

\* keyword lists a config file may hold
KeywordChoices == {DefaultKeywords, <<>>, <<(<<"tong">>)>>}

\* message texts: n filler characters followed by a short ending, with n
\* around the two length thresholds of the code
Endings == {<<>>, <<"tong", "zhi">>, <<"zhi", "tong">>, <<"bi", "kan">>, <<"tong">>}
PadLens ==
    {0} \cup ((LengthGate - 2)..(LengthGate + Slack))
        \cup ((ContentLimit - 2)..(ContentLimit + Slack))
Contents == {Rep("x", n) \o e : n \in PadLens, e \in Endings}

\* message texts of the running system
MsgContents == {<<"x">>, <<"tong", "zhi">>}
Senders == {<<"u">>}

Object(members) == <<"{">> \o members \o <<"}">>
FiveFields == <<"m_title", "m_time", "m_location", "m_content", "m_action">>

\* completions the model may produce
Replies ==
    {<<"shi">>, <<"fou">>, <<" ", "shi", " ">>, <<"bu", "shi", "p">>, <<>>, <<"p">>,
     <<"}", "p", "{">>, <<"{", "p", "}">>, <<"{">>,
     Object(<<"m_title", "m_urgent_YES">>),
     <<"p">> \o Object(FiveFields \o <<"m_urgent_true">>) \o <<"p">>}
    \cup {Object(FiveFields \o <<u>>) :
            u \in {"m_urgent_false", "m_urgent_true", "m_urgent_YES",
                   "m_urgent_shi", "m_urgent_no"}}

\* what one exchange with the model API can give
Https ==
    {HttpError("transport"), HttpError("status"),
     HttpOk(Body(FALSE, <<>>)), HttpOk(Body(TRUE, <<>>))}
    \cup {HttpOk(Body(TRUE, <<r>>)) : r \in Replies}

\* request bodies of the two group routes
RequestBodies ==
    {[present |-> FALSE, has_group |-> FALSE, group |-> ""],
     [present |-> TRUE, has_group |-> FALSE, group |-> ""]}
    \cup {[present |-> TRUE, has_group |-> TRUE, group |-> g] : g \in Groups}

Ids == {NotificationId(t) : t \in 0..MaxTime}

\* the sequences over Groups without a repeated element
RECURSIVE NoDupSeqs(_)
NoDupSeqs(G) ==
    {<<>>} \cup UNION {{<<g>> \o s : s \in NoDupSeqs(G \ {g})} : g \in G}

(***************************************************************************)
(* The state after construction (lines 32-35, 323): load_config returns    *)
(* the file's content, or writes and returns the default config.           *)
(***************************************************************************)
\* threads of the threaded server and of the chat client's callbacks
Threads == {"T1", "T2"}
IdleThread == [pc |-> "idle"]

NoCall == [fn |-> "none", content |-> <<>>, http |-> HttpError("transport"),
           raised |-> FALSE, value |-> FALSE, calls |-> 0, info |-> <<>>]

Last(op, arg, ret, calls, caught) ==
    [op |-> op, arg |-> arg, ret |-> ret, calls |-> calls, caught |-> caught]

\* config files the process may find: none, one that does not parse, or
\* one that the program wrote
ConfigFiles ==
    {ConfigFile("missing", <<>>), ConfigFile("ok", <<"{", Quote>>)}
    \cup {save_config([target_groups |-> tg, keywords |-> DefaultKeywords,
                       enable_alert |-> TRUE]) : tg \in NoDupSeqs(Groups)}

\* __init__ on the config file f
Construct(f) ==
    /\ LET r == load_config(f)
       IN  config = r.config /\ config_file = r.file
    /\ active_listeners = {}
    /\ wx_listen = [g \in Groups |-> 0]
    /\ keep_running = FALSE
    /\ notif_file \in {File("missing", <<>>), File("malformed", <<>>),
                       File("nonlist", <<>>), File("ok", <<>>)}
    /\ now = 0
    /\ last = Last("init", "", "none", 0, FALSE)
    /\ call = NoCall
    /\ threads = [t \in Threads |-> IdleThread]
    /\ serial = <<>>

Init == \E f \in ConfigFiles : Construct(f)

TheMonitor == Monitor(config, config_file, active_listeners, wx_listen)

SetMonitor(m) ==
    /\ config' = m.config
    /\ config_file' = m.config_file
    /\ active_listeners' = m.active_listeners
    /\ wx_listen' = m.wx_listen

(***************************************************************************)
(* The handlers.                                                           *)
(***************************************************************************)
\* the add route testing only that a body is present: data['group'] then
\* raises KeyError on a body without the field
AddMonitoredGroup_body_only(data, wx_ok) ==
    /\ IF ~data.present
       THEN /\ last' = Last("add_group", data.group, "400", 0, FALSE)
            /\ UNCHANGED <<config, config_file, active_listeners, wx_listen>>
       ELSE IF ~data.has_group
       THEN /\ last' = Last("add_group", data.group, "raised", 0, FALSE)
            /\ UNCHANGED <<config, config_file, active_listeners, wx_listen>>
       ELSE LET r == add_group_listener(TheMonitor, data.group, wx_ok)
            IN  /\ SetMonitor(r.m)
                /\ last' = Last("add_group", data.group, r.ret, 0, FALSE)
    /\ UNCHANGED <<threads, serial, keep_running, notif_file, now, call>>

\* POST /api/groups/add
AddMonitoredGroup(data, wx_ok) ==
    /\ IF ~data.present \/ ~data.has_group
       THEN /\ last' = Last("add_group", data.group, "400", 0, FALSE)
            /\ UNCHANGED <<config, config_file, active_listeners, wx_listen>>
       ELSE LET r == add_group_listener(TheMonitor, data.group, wx_ok)
            IN  /\ SetMonitor(r.m)
                /\ last' = Last("add_group", data.group, r.ret, 0, FALSE)
    /\ UNCHANGED <<threads, serial, keep_running, notif_file, now, call>>

\* POST /api/groups/remove
RemoveMonitoredGroup(data, wx_ok) ==
    /\ IF ~data.present \/ ~data.has_group
       THEN /\ last' = Last("remove_group", data.group, "400", 0, FALSE)
            /\ UNCHANGED <<config, config_file, active_listeners, wx_listen>>
       ELSE LET r == remove_group_listener(TheMonitor, data.group, wx_ok)
            IN  /\ SetMonitor(r.m)
                /\ last' = Last("remove_group", data.group, r.ret, 0, FALSE)
    /\ UNCHANGED <<threads, serial, keep_running, notif_file, now, call>>

\* POST /api/start: the thread's run of start_monitoring
StartMonitoring(http, bad) ==
    LET r == start_monitoring(TheMonitor, http, bad)
    IN  /\ SetMonitor(r.m)
        /\ keep_running' = (keep_running \/ r.ret = "keep_running")
        /\ last' = Last("start_monitoring", "", r.ret, 1, FALSE)
        /\ UNCHANGED <<threads, serial, notif_file, now, call>>

\* the chat client delivers a message of a listened chat to the callback
Deliver(chat, sender, content, http1, http2) ==
    /\ wx_listen[chat] > 0
    /\ LET r == on_message(notif_file, config.keywords, chat, sender, content,
                           http1, http2, now)
       IN  /\ Len(r.file.data) <= MaxNotifications
           /\ notif_file' = r.file
           /\ serial' = r.file.data
           /\ last' = Last("on_message", chat,
                           IF r.raised THEN "raised" ELSE "returned",
                           r.calls, r.caught)
    /\ UNCHANGED <<threads, config, config_file, active_listeners, wx_listen,
                   keep_running, now>>

OnMessage(chat, sender, content, http1, http2) ==
    /\ Deliver(chat, sender, content, http1, http2)
    /\ UNCHANGED call

\* the same delivery, with the message and the two exchanges kept in call
MsgCall(chat, sender, content, http1, http2) ==
    [fn |-> "on_message", chat |-> chat, sender |-> sender,
     content |-> content, http1 |-> http1, http2 |-> http2]

ObservedMessage(chat, sender, content, http1, http2) ==
    /\ Deliver(chat, sender, content, http1, http2)
    /\ call' = MsgCall(chat, sender, content, http1, http2)

\* POST /api/notifications/<id>/read
MarkNotificationRead(notification_id) ==
    LET r == mark_notification_as_read(notif_file, notification_id)
    IN  /\ notif_file' = r.file
        /\ serial' = r.file.data
        /\ last' = Last("mark_read", notification_id,
                        IF r.ret THEN "true" ELSE "false", 0, FALSE)
        /\ UNCHANGED <<threads, config, config_file, active_listeners, wx_listen,
                       keep_running, now, call>>

\* DELETE /api/notifications/<id>
DeleteNotification(notification_id) ==
    LET r == delete_notification(notif_file, notification_id)
    IN  /\ notif_file' = r.file
        /\ serial' = r.file.data
        /\ last' = Last("delete", notification_id,
                        IF r.ret THEN "true" ELSE "false", 0, FALSE)
        /\ UNCHANGED <<threads, config, config_file, active_listeners, wx_listen,
                       keep_running, now, call>>

\* a second passes
Tick ==
    /\ now < MaxTime
    /\ now' = now + 1
    /\ UNCHANGED <<threads, serial, config, config_file, active_listeners, wx_listen,
                   keep_running, notif_file, last, call>>

(***************************************************************************)
(* Store operations of concurrent threads.  Nothing in lines 261-320 takes *)
(* a lock: a thread reads the whole file (lines 270-272, 285-286, 307-308),*)
(* works on what it read, and rewrites the whole file (lines 277-279,      *)
(* 294-295, 314-315); other threads run in between.                        *)
(***************************************************************************)
\* what on_message hands to save_notification (lines 216-221)
MessageData(chat, sender, content) ==
    default_info(content) @@ [group       |-> S(chat),
                              sender      |-> S(sender),
                              raw_content |-> S(content)]

\* a thread enters a store operation and reads the file
StoreRead(t, op, arg) ==
    /\ threads[t].pc = "idle"
    /\ op = "append"
         => /\ wx_listen[arg.chat] > 0
            /\ Len(notif_file.data) < MaxNotifications
            /\ Len(serial) < MaxNotifications
    /\ threads' = [threads EXCEPT ![t] =
                       [pc |-> "read", op |-> op, arg |-> arg,
                        snap |-> notif_file, at |-> now]]
    /\ UNCHANGED <<config, config_file, active_listeners, wx_listen,
                   keep_running, notif_file, now, last, call, serial>>

\* the rest of the operation as if it still held the file: it works on the
\* file as it is now
store_write_locked(th, file) ==
    CASE th.op = "append" ->
           LET r == save_notification(file,
                        MessageData(th.arg.chat, th.arg.sender, th.arg.content),
                        th.at)
           IN  [ret  |-> IF r.raised THEN "raised" ELSE "returned",
                file |-> IF r.raised THEN file ELSE r.file]
      [] th.op = "mark_read" ->
           LET r == mark_notification_as_read(file, th.arg)
           IN  [ret  |-> IF r.ret THEN "true" ELSE "false",
                file |-> IF r.ret THEN r.file ELSE file]
      [] th.op = "delete" ->
           LET r == delete_notification(file, th.arg)
           IN  [ret  |-> IF r.ret THEN "true" ELSE "false",
                file |-> IF r.ret THEN r.file ELSE file]

\* the rest of the operation: it works on what the thread read (th.snap)
\* and, where the code writes, replaces the file, which is file until then
store_write(th, file) ==
    CASE th.op = "append" ->
           LET r == save_notification(th.snap,
                        MessageData(th.arg.chat, th.arg.sender, th.arg.content),
                        th.at)
           IN  [ret  |-> IF r.raised THEN "raised" ELSE "returned",
                file |-> IF r.raised THEN file ELSE r.file]
      [] th.op = "mark_read" ->
           LET r == mark_notification_as_read(th.snap, th.arg)
           IN  [ret  |-> IF r.ret THEN "true" ELSE "false",
                file |-> IF r.ret THEN r.file ELSE file]
      [] th.op = "delete" ->
           LET r == delete_notification(th.snap, th.arg)
           IN  [ret  |-> IF r.ret THEN "true" ELSE "false",
                file |-> IF r.ret THEN r.file ELSE file]

\* the thread finishes its operation
StoreWrite(t) ==
    /\ threads[t].pc = "read"
    /\ LET th == threads[t]
           w  == store_write(th, notif_file)
           sf == File(notif_file.st, serial)
           sq == store_write([th EXCEPT !.snap = sf], sf)
       IN  /\ notif_file' = w.file
           /\ serial' = sq.file.data
           /\ last' = Last(th.op, IF th.op = "append" THEN th.arg.chat ELSE th.arg,
                           w.ret, 0, FALSE)
    /\ threads' = [threads EXCEPT ![t] = IdleThread]
    /\ UNCHANGED <<config, config_file, active_listeners, wx_listen,
                   keep_running, now, call>>

\* what the exchanges of one message can give: the classification exchange
\* and the extraction exchange
MsgHttps1 ==
    {HttpError("transport"), HttpOk(Body(TRUE, <<>>)),
     HttpOk(Body(TRUE, <<(<<"shi">>)>>))}
MsgHttps2 ==
    {HttpError("status"), HttpOk(Body(TRUE, <<>>)),
     HttpOk(Body(TRUE, <<Object(FiveFields \o <<"m_urgent_true">>)>>))}

\* what the self-test exchange can give
TestHttps ==
    {HttpError("transport"), HttpError("status"), HttpOk(Body(FALSE, <<>>)),
     HttpOk(Body(TRUE, <<>>)), HttpOk(Body(TRUE, <<(<<"p">>)>>))}

Groups_Add == \E data \in RequestBodies, wx_ok \in BOOLEAN : AddMonitoredGroup(data, wx_ok)
Groups_Remove == \E data \in RequestBodies, wx_ok \in BOOLEAN : RemoveMonitoredGroup(data, wx_ok)
Monitor_Start == \E http \in TestHttps, bad \in SUBSET Groups : StartMonitoring(http, bad)
Chat_Message ==
    \E chat \in Groups, sender \in Senders, content \in MsgContents,
       http1 \in MsgHttps1, http2 \in MsgHttps2 :
        OnMessage(chat, sender, content, http1, http2)
Store_MarkRead == \E id \in Ids : MarkNotificationRead(id)
Store_Delete == \E id \in Ids : DeleteNotification(id)

\* the whole system
Next ==
    \/ Groups_Add
    \/ Groups_Remove
    \/ Monitor_Start
    \/ Chat_Message
    \/ Store_MarkRead
    \/ Store_Delete
    \/ Tick

Spec == Init /\ [][Next]_vars

(***************************************************************************)
(* add_group_listener run by concurrent threads: the request threads of    *)
(* POST /api/groups/add and the threads that POST /api/start creates.      *)
(* Nothing in lines 226-259 takes a lock; a thread may be preempted        *)
(* between any two lines.  pc names the line the thread executes next.     *)
(***************************************************************************)
\* add_group_listener has returned to its caller: the route answers, the
\* loop of start_monitoring goes on to its next group
Returned(th) ==
    IF th.kind = "add" THEN IdleThread
    ELSE [th EXCEPT !.pc = "l257", !.i = @ + 1]

\* line 337: the route calls monitor.add_group_listener(data['group'])
AddEnter(t, group_name) ==
    /\ threads[t].pc = "idle"
    /\ threads' = [threads EXCEPT ![t] =
                       [pc |-> "l228", kind |-> "add", group |-> group_name, i |-> 0]]
    /\ UNCHANGED <<config, config_file, active_listeners, wx_listen,
                   keep_running, notif_file, now, last, call, serial>>

\* lines 385, 253-255: the new thread enters start_monitoring; the self-test
\* returns or the thread ends with its exception
StartEnter(t, http) ==
    /\ threads[t].pc = "idle"
    /\ threads' = [threads EXCEPT ![t] =
                       IF test_model_connection(http).raised THEN IdleThread
                       ELSE [pc |-> "l257", kind |-> "start", group |-> "", i |-> 1]]
    /\ UNCHANGED <<config, config_file, active_listeners, wx_listen,
                   keep_running, notif_file, now, last, call, serial>>

\* lines 257-259: the next group of the list as it is now, or KeepRunning,
\* which does not return
L257(t) ==
    /\ threads[t].pc = "l257"
    /\ IF threads[t].i <= Len(config.target_groups)
       THEN /\ threads' = [threads EXCEPT ![t].pc = "l228",
                                          ![t].group = config.target_groups[threads[t].i]]
            /\ UNCHANGED keep_running
       ELSE /\ threads' = [threads EXCEPT ![t].pc = "l259"]
            /\ keep_running' = TRUE
    /\ UNCHANGED <<config, config_file, active_listeners, wx_listen,
                   notif_file, now, last, call, serial>>

\* line 228: if group_name not in self.active_listeners
L228(t) ==
    /\ threads[t].pc = "l228"
    /\ IF threads[t].group \notin active_listeners
       THEN /\ threads' = [threads EXCEPT ![t].pc = "l229"]
            /\ UNCHANGED last
       ELSE /\ threads' = [threads EXCEPT ![t] = Returned(threads[t])]
            /\ last' = Last("add_group", threads[t].group, "false", 0, FALSE)
    /\ UNCHANGED <<config, config_file, active_listeners, wx_listen,
                   keep_running, notif_file, now, call, serial>>

\* line 229: self.wx.AddListenChat(...), which returns or raises; an
\* exception ends the request with 500 and ends a monitoring thread
L229(t, wx_ok) ==
    /\ threads[t].pc = "l229"
    /\ wx_listen[threads[t].group] < Cardinality(Threads)
    /\ IF wx_ok
       THEN /\ wx_listen' = [wx_listen EXCEPT ![threads[t].group] = @ + 1]
            /\ threads' = [threads EXCEPT ![t].pc = "l230"]
            /\ UNCHANGED last
       ELSE /\ threads' = [threads EXCEPT ![t] = IdleThread]
            /\ last' = Last("add_group", threads[t].group, "raised", 0, FALSE)
            /\ UNCHANGED wx_listen
    /\ UNCHANGED <<config, config_file, active_listeners,
                   keep_running, notif_file, now, call, serial>>

\* line 230: self.active_listeners[group_name] = True
L230(t) ==
    /\ threads[t].pc = "l230"
    /\ active_listeners' = active_listeners \cup {threads[t].group}
    /\ threads' = [threads EXCEPT ![t].pc = "l232"]
    /\ UNCHANGED <<config, config_file, wx_listen,
                   keep_running, notif_file, now, last, call, serial>>

\* line 232: if group_name not in self.config['target_groups']
L232(t) ==
    /\ threads[t].pc = "l232"
    /\ IF ~InSeq(threads[t].group, config.target_groups)
       THEN /\ threads' = [threads EXCEPT ![t].pc = "l233"]
            /\ UNCHANGED last
       ELSE /\ threads' = [threads EXCEPT ![t] = Returned(threads[t])]
            /\ last' = Last("add_group", threads[t].group, "true", 0, FALSE)
    /\ UNCHANGED <<config, config_file, active_listeners, wx_listen,
                   keep_running, notif_file, now, call, serial>>

\* line 233: self.config['target_groups'].append(group_name)
L233(t) ==
    /\ threads[t].pc = "l233"
    /\ config' = [config EXCEPT !.target_groups = Append(@, threads[t].group)]
    /\ threads' = [threads EXCEPT ![t].pc = "l234"]
    /\ UNCHANGED <<config_file, active_listeners, wx_listen,
                   keep_running, notif_file, now, last, call, serial>>

\* lines 234-235: self.save_config(); return True
L234(t) ==
    /\ threads[t].pc = "l234"
    /\ config_file' = save_config(config)
    /\ threads' = [threads EXCEPT ![t] = Returned(threads[t])]
    /\ last' = Last("add_group", threads[t].group, "true", 0, FALSE)
    /\ UNCHANGED <<config, active_listeners, wx_listen,
                   keep_running, notif_file, now, call, serial>>

\* the process is started again: line 323 constructs the monitor anew over
\* the files the last run left
Restart ==
    /\ LET r == load_config(config_file)
       IN  config' = r.config /\ config_file' = r.file
    /\ active_listeners' = {}
    /\ wx_listen' = [g \in Groups |-> 0]
    /\ keep_running' = FALSE
    /\ last' = Last("restart", "", "none", 0, FALSE)
    /\ UNCHANGED <<threads, serial, notif_file, now, call>>

\* the listener manager alone: the group routes and the monitoring thread
NextGroups ==
    \/ Groups_Add
    \/ Groups_Remove
    \/ Monitor_Start

SpecGroups == Init /\ [][NextGroups]_vars

\* the message pipeline and the store routes, on the listeners that
\* start_monitoring registers for a config file that names every group
InitStore == Init /\ Len(config.target_groups) = Cardinality(Groups)

Store_Start ==
    \E http \in {HttpError("transport"), HttpOk(Body(TRUE, <<(<<"p">>)>>))},
       bad \in SUBSET Groups :
        StartMonitoring(http, bad)

NextStore ==
    \/ Store_Start
    \/ Chat_Message
    \/ Store_MarkRead
    \/ Store_Delete
    \/ Tick

SpecStore == InitStore /\ [][NextStore]_vars

\* two threads in the store
RaceIds == {NotificationId(0)}
RaceMessages ==
    {[chat |-> chat, sender |-> sender, content |-> <<"tong", "zhi">>]
        : chat \in Groups, sender \in Senders}

Race_Start ==
    StartMonitoring(HttpOk(Body(TRUE, <<(<<"p">>)>>)), {})

Race_Read ==
    \E t \in Threads :
        \/ \E m \in RaceMessages : StoreRead(t, "append", m)
        \/ \E id \in RaceIds : StoreRead(t, "mark_read", id)
        \/ \E id \in RaceIds : StoreRead(t, "delete", id)

Race_Write == \E t \in Threads : StoreWrite(t)

NextRace ==
    \/ Race_Start
    \/ Race_Read
    \/ Race_Write

\* threads inside add_group_listener
Overlap_AddEnter == \E t \in Threads, g \in Groups : AddEnter(t, g)
Overlap_StartEnter ==
    \E t \in Threads,
       http \in {HttpOk(Body(TRUE, <<>>)), HttpOk(Body(TRUE, <<(<<"p">>)>>))} :
        StartEnter(t, http)
Overlap_L257 == \E t \in Threads : L257(t)
Overlap_L228 == \E t \in Threads : L228(t)
Overlap_L229 == \E t \in Threads, wx_ok \in BOOLEAN : L229(t, wx_ok)
Overlap_L230 == \E t \in Threads : L230(t)
Overlap_L232 == \E t \in Threads : L232(t)
Overlap_L233 == \E t \in Threads : L233(t)
Overlap_L234 == \E t \in Threads : L234(t)

NextOverlap ==
    \/ Overlap_AddEnter
    \/ Overlap_StartEnter
    \/ Overlap_L257
    \/ Overlap_L228
    \/ Overlap_L229
    \/ Overlap_L230
    \/ Overlap_L232
    \/ Overlap_L233
    \/ Overlap_L234

SpecOverlap == Init /\ [][NextOverlap]_vars

\* the store file is absent or holds [], the config file names g1 first
InitRace ==
    /\ InitStore
    /\ notif_file.st \in {"missing", "ok"}
    /\ config.target_groups[1] = "g1"

SpecRace == InitRace /\ [][NextRace]_vars

(***************************************************************************)
(* The classifier and the extractor applied to drawn inputs: the initial   *)
(* state draws a message text and an exchange, one step applies a function.*)
(***************************************************************************)
CallIsNotification ==
    /\ call.fn = "input"
    /\ LET r == is_notification(call.content, config.keywords, call.http)
       IN  call' = [call EXCEPT !.fn = "is_notification", !.raised = r.raised,
                                !.value = r.value, !.calls = r.calls]
    /\ UNCHANGED <<threads, serial, config, config_file, active_listeners, wx_listen,
                   keep_running, notif_file, now, last>>

CallExtractInfo ==
    /\ call.fn = "input"
    /\ LET r == extract_notification_info(call.content, call.http)
       IN  call' = [call EXCEPT !.fn = "extract_info", !.raised = r.raised,
                                !.calls = 1, !.info = r.info]
    /\ UNCHANGED <<threads, serial, config, config_file, active_listeners, wx_listen,
                   keep_running, notif_file, now, last>>

InitPure ==
    /\ \E kw \in KeywordChoices :
           config = [target_groups |-> <<>>, keywords |-> kw, enable_alert |-> TRUE]
    /\ config_file = save_config(config)
    /\ active_listeners = {}
    /\ wx_listen = [g \in Groups |-> 0]
    /\ keep_running = FALSE
    /\ notif_file = File("ok", <<>>)
    /\ now = 0
    /\ last = Last("init", "", "none", 0, FALSE)
    /\ \E content \in Contents, http \in Https :
           call = [NoCall EXCEPT !.fn = "input", !.content = content, !.http = http]
    /\ threads = [t \in Threads |-> IdleThread]
    /\ serial = <<>>

NextPure ==
    \/ CallIsNotification
    \/ CallExtractInfo

SpecPure == InitPure /\ [][NextPure]_vars

(***************************************************************************)
(* Properties of the classifier and the extractor (SpecPure).              *)
(***************************************************************************)
\* the completion an exchange delivers, when it delivers one
HasCompletion(http) ==
    http.kind = "ok" /\ http.body.has_choices /\ http.body.choices # <<>>
Completion(http) == http.body.choices[1]

\* kw occurs in s at some position
Occurs(kw, s) ==
    \E j \in 0..Len(s) :
        /\ j + Len(kw) <= Len(s)
        /\ \A k \in 1..Len(kw) : s[j + k] = kw[k]

KeywordFree(s) == \A i \in 1..Len(config.keywords) : ~Occurs(config.keywords[i], s)

\* C1: when the model's reply is a valid JSON object with all six fields,
\* extract_info returns that object, a str is_urgent replaced by the bool
\* "its lower-cased value is true, shi or yes".
C1_ValidObjectReturned ==
    (/\ call.fn = "extract_info"
     /\ HasCompletion(call.http)
     /\ ~json_loads(Completion(call.http)).raised
     /\ DOMAIN json_loads(Completion(call.http)).value = InfoKeys)
    => LET obj == json_loads(Completion(call.http)).value
       IN  /\ ~call.raised
           /\ DOMAIN call.info = InfoKeys
           /\ \A k \in InfoKeys \ {"is_urgent"} : call.info[k] = obj[k]
           /\ call.info["is_urgent"] =
                  IF obj["is_urgent"].ty = "str"
                  THEN B(lower(obj["is_urgent"].v) \in
                           {<<"t", "r", "u", "e">>, <<"shi">>, <<"y", "e", "s">>})
                  ELSE obj["is_urgent"]

\* C2: a text with no configured keyword and at most 20 characters is never
\* classified: is_notification returns false and makes no remote call; a
\* remote call is made only for a text with a keyword or more than 20 characters.
C2_ShortKeywordFreeNotClassified ==
    call.fn = "is_notification"
    => /\ (KeywordFree(call.content) /\ Len(call.content) <= 20)
            => (~call.raised /\ call.value = FALSE /\ call.calls = 0)
       /\ call.calls > 0
            => (~KeywordFree(call.content) \/ Len(call.content) > 20)

\* a keyword-free text of exactly 20 characters, the model ready to say yes
C2_Witness ==
    /\ call.fn = "is_notification"
    /\ config.keywords # <<>>
    /\ KeywordFree(call.content)
    /\ Len(call.content) = 20
    /\ HasCompletion(call.http)
    /\ Completion(call.http) = <<"shi">>
    /\ call.calls = 0

\* C10: on a reply with no decodable JSON object (the empty reply of a
\* failed API call included) extract_info raises nothing and returns the
\* default record, content being the first 200 characters of the input.
C10_Reply(http) == IF HasCompletion(http) THEN Completion(http) ELSE <<>>

C10_Unparseable(http) ==
    /\ ~(http.kind = "ok" /\ http.body.has_choices /\ http.body.choices = <<>>)
    /\ parse_reply(C10_Reply(http)).raised

C10_DefaultOnUnparseable ==
    (call.fn = "extract_info" /\ C10_Unparseable(call.http))
    => /\ ~call.raised
       /\ DOMAIN call.info = InfoKeys
       /\ call.info["title"] = S(<<"wei", "zhi", "tong", "zhi">>)
       /\ call.info["time"] = S(<<>>)
       /\ call.info["location"] = S(<<>>)
       /\ call.info["action"] = S(<<>>)
       /\ call.info["is_urgent"] = B(FALSE)
       /\ call.info["content"].ty = "str"
       /\ Len(call.info["content"].v) =
              (IF Len(call.content) < 200 THEN Len(call.content) ELSE 200)
       /\ \A i \in 1..Len(call.info["content"].v) :
              call.info["content"].v[i] = call.content[i]

\* a text longer than 200 characters and a reply of braces without an object
C10_Witness ==
    /\ call.fn = "extract_info"
    /\ C10_Unparseable(call.http)
    /\ HasCompletion(call.http)
    /\ Completion(call.http) = <<"{", "p", "}">>
    /\ Len(call.content) > 200
    /\ ~call.raised

(***************************************************************************)
(* Properties of the notification store and of on_message (SpecStore).     *)
(***************************************************************************)
HasId(file, id) == \E i \in 1..Len(file.data) : file.data[i].id = id

\* the records of s whose id differs from id, in order
RECURSIVE Others(_, _)
Others(s, id) ==
    IF s = <<>> THEN <<>>
    ELSE IF s[Len(s)].id = id THEN Others(SubSeq(s, 1, Len(s) - 1), id)
    ELSE Append(Others(SubSeq(s, 1, Len(s) - 1), id), s[Len(s)])

\* C3: after delete(id) on a readable store, list() holds no record with
\* that id, also when several records share it; delete returns true exactly
\* when a record was removed; the other records keep their relative order.
C3_DeleteRemovesEveryMatch ==
    [][\A id \in Ids :
         (/\ notif_file.st = "ok"
          /\ last'.op = "delete"
          /\ last'.arg = id
          /\ DeleteNotification(id))
         => LET before == get_notifications(notif_file)
                after  == get_notifications(notif_file')
            IN  /\ \A i \in 1..Len(after) : after[i].id # id
                /\ (last'.ret = "true") <=> (Len(after) < Len(before))
                /\ (last'.ret = "true") <=> HasId(notif_file, id)
                /\ after = Others(before, id)]_vars

\* a delete has removed something and a record of another id is left
C3_Witness ==
    /\ last.op = "delete"
    /\ last.ret = "true"
    /\ notif_file.st = "ok"
    /\ Len(notif_file.data) = 1
    /\ ~HasId(notif_file, last.arg)

\* C4: mark_read(id) and delete(id) with an id that no stored record carries
\* (the file may be missing or malformed) return false and leave the store
\* as it was: nothing added, removed, reordered or changed, no file created.
C4_AbsentIdChangesNothing ==
    [][\A id \in Ids :
         (/\ ~HasId(notif_file, id)
          /\ last'.op \in {"mark_read", "delete"}
          /\ last'.arg = id
          /\ MarkNotificationRead(id) \/ DeleteNotification(id))
         => (last'.ret = "false" /\ notif_file' = notif_file)]_vars

\* mark_read has just missed on a store that holds a record of another id
C4_Witness ==
    /\ last.op = "mark_read"
    /\ last.ret = "false"
    /\ notif_file.st = "ok"
    /\ Len(notif_file.data) >= 1
    /\ ~HasId(notif_file, last.arg)

\* C7: an exception raised while on_message handles a message never leaves
\* on_message; the listeners stay registered and active, so that the chat
\* client goes on delivering the group's later messages to on_message.
C7_MessageStep == last'.op = "on_message"

C7_ExceptionsStayInside ==
    [][C7_MessageStep
        => /\ last'.ret = "returned"
           /\ active_listeners' = active_listeners
           /\ wx_listen' = wx_listen
           /\ wx_listen'[last'.arg] > 0
           /\ keep_running' = keep_running]_vars

\* the store append has raised inside on_message: both remote calls were
\* made and the file is not an array
C7_Witness ==
    /\ last.op = "on_message"
    /\ last.caught
    /\ last.calls = 2
    /\ notif_file.st = "nonlist"
    /\ last.ret = "returned"
    /\ wx_listen[last.arg] > 0

(***************************************************************************)
(* Properties of the listener manager (SpecGroups).                        *)
(***************************************************************************)
Count(x, s) == Cardinality({i \in 1..Len(s) : s[i] = x})

TargetSet == {config.target_groups[i] : i \in 1..Len(config.target_groups)}

AddGroupStep(g) ==
    \E wx_ok \in BOOLEAN :
        AddMonitoredGroup([present |-> TRUE, has_group |-> TRUE, group |-> g], wx_ok)

RemoveGroupStep(g) ==
    \E wx_ok \in BOOLEAN :
        RemoveMonitoredGroup([present |-> TRUE, has_group |-> TRUE, group |-> g], wx_ok)

\* C5: add_group(name) called right after a completed add_group(name)
\* returns false, registers no further callback, and target_groups holds
\* name exactly once.
C5_SecondAddIsNoOp ==
    [][\A g \in Groups :
         (/\ last.op = "add_group" /\ last.arg = g /\ last.ret \in {"true", "false"}
          /\ AddGroupStep(g))
         => /\ last'.ret = "false"
            /\ wx_listen' = wx_listen
            /\ active_listeners' = active_listeners
            /\ Count(g, config'.target_groups) = 1]_vars

\* an add_group has returned false for a group registered once
C5_Witness ==
    /\ last.op = "add_group"
    /\ last.ret = "false"
    /\ last.arg \in active_listeners
    /\ wx_listen[last.arg] = 1
    /\ Count(last.arg, config.target_groups) = 1

\* C6: a remove_group(name) that returns: if name is active, it unregisters
\* the callback, removes name from the active set and from target_groups,
\* persists the config and returns true; if not, it returns false and
\* changes nothing.  After add_group(name) returned true, remove_group(name)
\* leaves name in neither the active set nor target_groups.
C6_RemoveInvertsAdd ==
    [][\A g \in Groups :
         (RemoveGroupStep(g) /\ last'.ret # "raised")
         => IF g \in active_listeners
            THEN /\ last'.ret = "true"
                 /\ wx_listen' = [wx_listen EXCEPT ![g] = 0]
                 /\ active_listeners' = active_listeners \ {g}
                 /\ Count(g, config'.target_groups) = 0
                 /\ \A h \in Groups \ {g} :
                        Count(h, config'.target_groups) = Count(h, config.target_groups)
                 /\ load_config(config_file').config = config'
            ELSE /\ last'.ret = "false"
                 /\ UNCHANGED <<active_listeners, config, config_file, wx_listen>>]_vars

\* a remove_group has returned true
C6_Witness ==
    /\ last.op = "remove_group"
    /\ last.ret = "true"
    /\ last.arg \notin active_listeners
    /\ Count(last.arg, config.target_groups) = 0
    /\ active_listeners # {}

\* C8: once start_monitoring has registered the listeners of the loaded
\* config, between completed add_group / remove_group calls the names in
\* target_groups are exactly the keys of the active listener set.
C8_TargetsAreActive ==
    keep_running => TargetSet = active_listeners

\* monitoring runs and a group has been added since
C8_Witness ==
    /\ keep_running
    /\ last.op = "add_group"
    /\ last.ret = "true"
    /\ Cardinality(active_listeners) = 2

\* C9: start_monitoring gets past the self-test whatever the model API
\* answers, and is in KeepRunning only with a listener registered for every
\* group of target_groups.
C9_StartPassesSelfTest ==
    last.op = "start_monitoring"
    => /\ last.ret # "raised_selftest"
       /\ last.ret = "keep_running"
            => \A g \in TargetSet : g \in active_listeners /\ wx_listen[g] > 0

\* C13: POST /api/groups/add and /api/groups/remove with a body that is
\* absent or lacks the field group answer 400 and change nothing: no
\* callback registered or unregistered, active listeners, target_groups and
\* the config file as before.
C13_BadBodyIsRejected ==
    [][\A data \in RequestBodies :
         (/\ ~data.present \/ ~data.has_group
          /\ \E wx_ok \in BOOLEAN :
                \/ AddMonitoredGroup(data, wx_ok)
                \/ RemoveMonitoredGroup(data, wx_ok))
         => /\ last'.ret = "400"
            /\ UNCHANGED <<config, config_file, active_listeners, wx_listen,
                           keep_running>>]_vars

\* a request without the field has been rejected while a listener is active
C13_Witness ==
    /\ last.ret = "400"
    /\ last.op \in {"add_group", "remove_group"}
    /\ active_listeners # {}
    /\ config.target_groups # <<>>

\* C18: after any sequence of completed add_group, remove_group and
\* start_monitoring calls from a config without repeated groups, every
\* active listener's group is in target_groups; also before start_monitoring
\* has run and when a chat-client call raises.
C18_ActiveWithinTargets ==
    active_listeners \subseteq TargetSet

\* a chat-client call has just raised, a listener is active and no
\* monitoring thread has reached KeepRunning
C18_Witness ==
    /\ last.ret \in {"raised", "raised_register"}
    /\ active_listeners # {}
    /\ ~keep_running
    /\ active_listeners \subseteq TargetSet

(***************************************************************************)
(* The remote API is down: every exchange ends in a transport error or an  *)
(* error status.                                                           *)
(***************************************************************************)
FailHttps == {HttpError("transport"), HttpError("status")}

Down_Start ==
    \E http \in FailHttps, bad \in SUBSET Groups : StartMonitoring(http, bad)

Down_Message ==
    \E chat \in Groups, sender \in Senders, content \in MsgContents,
       http1 \in FailHttps, http2 \in FailHttps :
        OnMessage(chat, sender, content, http1, http2)

NextDown ==
    \/ Groups_Add
    \/ Groups_Remove
    \/ Down_Start
    \/ Down_Message
    \/ Tick

SpecDown == Init /\ [][NextDown]_vars

\* C11: while every model-API exchange fails, call_model_api returns None,
\* is_notification returns false for every message without raising,
\* on_message returns with nothing caught after at most one remote call,
\* the store gets no record, the listeners stay as they are, and
\* start_monitoring goes on to register the groups after its one self-test.
C11_SilentDegradation ==
    [][/\ \A http \in FailHttps :
            /\ call_model_api(http) = None
            /\ \A content \in MsgContents :
                  LET n == is_notification(content, config.keywords, http)
                  IN  ~n.raised /\ ~n.value /\ n.calls <= 1
       /\ last'.op = "on_message"
            => /\ last'.ret = "returned"
               /\ ~last'.caught
               /\ last'.calls <= 1
               /\ notif_file' = notif_file
               /\ notif_file'.data = <<>>
               /\ UNCHANGED <<active_listeners, wx_listen, keep_running>>
       /\ (last'.op = "start_monitoring" /\ last' # last)
            => /\ last'.ret # "raised_selftest"
               /\ last'.calls = 1
               /\ active_listeners \subseteq active_listeners']_vars

\* a message that passes the local gate was handled on a listened chat with
\* one failed remote call, and the store holds nothing
C11_Witness ==
    /\ last.op = "on_message"
    /\ last.calls = 1
    /\ ~last.caught
    /\ wx_listen[last.arg] > 0
    /\ last.arg \in active_listeners
    /\ notif_file.data = <<>>

(***************************************************************************)
(* The store operations one after the other: appends from messages that    *)
(* are classified positive, mark_read and delete.                          *)
(***************************************************************************)
Ledger_Message ==
    \E chat \in Groups, sender \in Senders, content \in MsgContents,
       http2 \in {HttpError("status"),
                  HttpOk(Body(TRUE, <<Object(FiveFields \o <<"m_urgent_true">>)>>))} :
        OnMessage(chat, sender, content, HttpOk(Body(TRUE, <<(<<"shi">>)>>)), http2)

NextLedger ==
    \/ Store_Start
    \/ Ledger_Message
    \/ Store_MarkRead
    \/ Store_Delete
    \/ Tick

SpecLedger == InitStore /\ [][NextLedger]_vars

\* C17: under sequential store operations a stored record changes only by
\* is_read becoming true.  An on_message step leaves the stored records as
\* they are, in order, and adds at most one at the end; a mark_read step
\* sets is_read to true on the records of its id and changes nothing else;
\* a delete step takes out exactly the records of its id; no other step
\* touches the store; is_read never goes from true to false.
C17_OnlyIsReadMutates ==
    [][LET old == notif_file.data
           new == notif_file'.data
       IN  /\ last'.op = "on_message"
                => /\ Len(new) \in {Len(old), Len(old) + 1}
                   /\ SubSeq(new, 1, Len(old)) = old
           /\ last'.op = "mark_read"
                => /\ Len(new) = Len(old)
                   /\ \A i \in 1..Len(old) :
                         new[i] = IF old[i].id = last'.arg
                                  THEN [old[i] EXCEPT !.is_read = B(TRUE)]
                                  ELSE old[i]
           /\ last'.op = "delete"
                => new = Others(old, last'.arg)
           /\ last'.op \notin {"on_message", "mark_read", "delete"}
                => notif_file' = notif_file
           /\ last'.op # "delete"
                => /\ Len(new) >= Len(old)
                   /\ \A i \in 1..Len(old) :
                         /\ old[i].is_read = B(TRUE) => new[i].is_read = B(TRUE)
                         /\ [new[i] EXCEPT !.is_read = B(TRUE)]
                              = [old[i] EXCEPT !.is_read = B(TRUE)]]_vars

\* mark_read has just run on a store of two records, one of them already
\* read before and still read, the other still unread
C17_Witness ==
    /\ last.op = "mark_read"
    /\ last.ret = "true"
    /\ Len(notif_file.data) = 2
    /\ \E i, j \in 1..2 :
          /\ notif_file.data[i].is_read = B(TRUE)
          /\ notif_file.data[i].id = last.arg
          /\ notif_file.data[j].is_read = B(FALSE)
          /\ notif_file.data[j].id # last.arg

(***************************************************************************)
(* The config file across mutations and restarts.  The process may also    *)
(* find a file edited by hand: keys in another order, keywords that hold   *)
(* a quote, a backslash or JSON punctuation, enable_alert false.           *)
(***************************************************************************)
EditedConfigFiles ==
    {ConfigFile("ok",
        <<"{", Quote, "keywords", Quote, ":",
               "[", Quote, Backslash, Quote, "a", Quote, ",",
                    Quote, Backslash, Backslash, Quote, ",",
                    Quote, ",", "]", Quote, "]", ",",
               Quote, "enable_alert", Quote, ":", "false", ",",
               Quote, "target_groups", Quote, ":", "[">> \o tg \o <<"]", "}">>)
        : tg \in {<<>>, <<Quote, "g2", Quote>>}}
    \cup {ConfigFile("ok", <<"{", Quote, "keywords", Quote, ":", "[", "]", "}", "}">>)}

InitConfig == \E f \in ConfigFiles \cup EditedConfigFiles : Construct(f)

NextConfig ==
    \/ Groups_Add
    \/ Groups_Remove
    \/ Monitor_Start
    \/ Restart

SpecConfig == InitConfig /\ [][NextConfig]_vars

\* C14: save(config) followed by load() gives back config; after every
\* completed add_group or remove_group call the config file parses to the
\* in-memory config, target_groups in the same order; a restart loads the
\* config the last run had.
C14_ConfigRoundTrip ==
    [][/\ load_config(save_config(config')).config = config'
       /\ (last'.op \in {"add_group", "remove_group"} /\ last'.ret \in {"true", "false"})
            => /\ config_file'.st = "ok"
               /\ json_load_config(config_file'.text).ok
               /\ AsConfig(json_load_config(config_file'.text).value) = config'
       /\ last'.op = "restart" => config' = config]_vars

\* an add_group call has rewritten the file of a config whose keywords
\* need escaping, and the file now names two groups
C14_Witness ==
    /\ last.op = "add_group"
    /\ last.ret = "true"
    /\ \E i \in 1..Len(config.keywords) : Quote \in {config.keywords[i][j] : j \in 1..Len(config.keywords[i])}
    /\ Len(config.target_groups) = 2
    /\ config_file = save_config(config)
    /\ ~config.enable_alert

(***************************************************************************)
(* The message pipeline alone, the message and its two exchanges observed. *)
(* The extraction reply may carry members named like the store's and       *)
(* on_message's own fields.                                                *)
(***************************************************************************)
ObsContents == {<<"x">>, <<"tong", "zhi">>}
ObsHttps1 ==
    {HttpError("transport"),
     HttpOk(Body(TRUE, <<(<<"fou">>)>>)),
     HttpOk(Body(TRUE, <<(<<"shi">>)>>))}
ObsHttps2 ==
    {HttpOk(Body(TRUE, <<>>)),
     HttpOk(Body(TRUE, <<Object(<<"m_title", "m_id", "m_timestamp", "m_is_read",
                                  "m_group", "m_sender", "m_raw_content">>)>>))}

Msg_Start ==
    \E bad \in {{}, Groups} :
        StartMonitoring(HttpOk(Body(TRUE, <<(<<"p">>)>>)), bad)

Msg_Message ==
    \E chat \in Groups, sender \in Senders, content \in ObsContents,
       http1 \in ObsHttps1, http2 \in ObsHttps2 :
        ObservedMessage(chat, sender, content, http1, http2)

NextMsg ==
    \/ Msg_Start
    \/ Msg_Message
    \/ Tick

SpecMsg == InitStore /\ [][NextMsg]_vars

\* a step of SpecMsg that is a delivery: Tick moves the clock, the start
\* sets last.op
MessageStep == last'.op = "on_message" /\ now' = now

\* the local gate and the affirmative token, read off the observed message
PassesGate(c) == ~KeywordFree(c.content) \/ Len(c.content) > LengthGate
Affirmative(c) ==
    HasCompletion(c.http1) /\ Occurs(<<"shi">>, Completion(c.http1))

Appended == Len(notif_file'.data) = Len(notif_file.data) + 1

\* C15: a delivery appends at most one record, and only when the message
\* passed the local gate and its classification reply held the affirmative
\* token; the extraction call is made only after a true classification and
\* the append only after the extraction; a message that fails the gate makes
\* no remote call and one classified negative makes one, and neither
\* writes the store.
C15_AppendOnlyAfterYes ==
    [][MessageStep =>
         LET c == call'
         IN  /\ Appended \/ notif_file' = notif_file
             /\ Appended => SubSeq(notif_file'.data, 1, Len(notif_file.data))
                               = notif_file.data
             /\ Appended => PassesGate(c) /\ Affirmative(c) /\ last'.calls = 2
             /\ last'.calls = 2 => PassesGate(c) /\ Affirmative(c)
             /\ ~PassesGate(c) => last'.calls = 0 /\ notif_file' = notif_file
             /\ (PassesGate(c) /\ ~Affirmative(c))
                  => last'.calls = 1 /\ notif_file' = notif_file]_vars

\* a message classified negative has just been handled with one remote
\* call, after an earlier message was stored
C15_Witness ==
    /\ call.fn = "on_message"
    /\ last.op = "on_message"
    /\ PassesGate(call)
    /\ ~Affirmative(call)
    /\ HasCompletion(call.http1)
    /\ last.calls = 1
    /\ Len(notif_file.data) = 1

AllIdle == \A t \in Threads : threads[t].pc = "idle"

\* the records a thread's snapshot holds
SnapData(th) == IF th.snap.st = "ok" THEN th.snap.data ELSE <<>>

\* the records with is_read set on those of the id
Marked(s, id) ==
    [i \in 1..Len(s) |-> IF s[i].id = id THEN [s[i] EXCEPT !.is_read = B(TRUE)]
                         ELSE s[i]]

\* C12: no store operation holds a lock.  A thread that finishes an
\* operation writes what follows from the file as it read it, whatever other
\* threads wrote since: an append writes its snapshot plus its record, a
\* mark_read its snapshot with the flags set, a delete its snapshot without
\* the records of the id.  An operation that ran with no write between its
\* read and its write leaves the store as the completed operations in a
\* row leave it; one that overlapped a write loses that write (the
\* witness).
C12_WritesComeFromSnapshots ==
    [][\A t \in Threads :
         (threads[t].pc = "read" /\ threads'[t].pc = "idle")
         => LET th  == threads[t]
                old == SnapData(th)
                new == notif_file'.data
            IN  /\ th.op = "append"
                     => /\ notif_file'.st = "ok"
                        /\ Len(new) = Len(old) + 1
                        /\ SubSeq(new, 1, Len(old)) = old
                        /\ new[Len(new)].group = S(th.arg.chat)
                        /\ new[Len(new)].is_read = B(FALSE)
                /\ th.op = "mark_read"
                     => IF \E i \in 1..Len(old) : old[i].id = th.arg
                        THEN new = Marked(old, th.arg) /\ last'.ret = "true"
                        ELSE notif_file' = notif_file /\ last'.ret = "false"
                /\ th.op = "delete"
                     => IF \E i \in 1..Len(old) : old[i].id = th.arg
                        THEN new = Others(old, th.arg) /\ last'.ret = "true"
                        ELSE notif_file' = notif_file /\ last'.ret = "false"
                /\ (th.snap = notif_file /\ serial = notif_file.data)
                     => serial' = notif_file'.data]_vars

\* two appends have completed and the file holds one record: the other
\* appended record is absent
C12_Witness ==
    /\ AllIdle
    /\ last.op = "append"
    /\ last.ret = "returned"
    /\ Len(serial) = 2
    /\ Len(notif_file.data) = 1

\* a delete has completed, nothing was appended since, and the deleted
\* record is in the file again
C12_DeletedRecordIsBack ==
    /\ AllIdle
    /\ last.op = "mark_read"
    /\ last.ret = "true"
    /\ serial = <<>>
    /\ \E i \in 1..Len(notif_file.data) : notif_file.data[i].id = last.arg

\* a mark_read has completed, and the flag it set is false again
C12_FlagIsReverted ==
    /\ AllIdle
    /\ last.op = "append"
    /\ Len(serial) = 2
    /\ Len(notif_file.data) = 2
    /\ serial[1].is_read = B(TRUE)
    /\ notif_file.data[1] = [serial[1] EXCEPT !.is_read = B(FALSE)]

\* C19: a group has at most one callback registered with the chat client
\* and appears at most once in target_groups, also when add_group_listener
\* calls for the same group overlap.
C19_OneCallbackPerGroup ==
    \A g \in Groups :
        /\ wx_listen[g] <= 1
        /\ Count(g, config.target_groups) <= 1

====
